---------------------------- MODULE Spec2Model ----------------------------
(***************************************************************************)
(* Plate recognition of the condominium backend: the region validator      *)
(* (seguridad/ocr_config.py), the position-aware correctors and the local  *)
(* multi-pass runner (seguridad/tesseract_ocr_service.py), the cloud       *)
(* reader (seguridad/azure_cv_service.py) and the fallback chain           *)
(* (seguridad/ai_orchestrator.py); and the maintenance task                *)
(* (mantenimiento/models.py).                                              *)
(*                                                                         *)
(* A text is a sequence of one-character strings.  Confidences are kept in *)
(* hundredths (0.7 is 70), so that they stay integers.                     *)
(***************************************************************************)
EXTENDS Integers, Sequences, FiniteSets, TLC

(***************************************************************************)
(* Characters and the str methods the code uses.                           *)
(***************************************************************************)
UpperAlphabet ==
    << "A", "B", "C", "D", "E", "F", "G", "H", "I", "J", "K", "L", "M",
       "N", "O", "P", "Q", "R", "S", "T", "U", "V", "W", "X", "Y", "Z" >>

LowerAlphabet ==
    << "a", "b", "c", "d", "e", "f", "g", "h", "i", "j", "k", "l", "m",
       "n", "o", "p", "q", "r", "s", "t", "u", "v", "w", "x", "y", "z" >>

DigitChars == { "0", "1", "2", "3", "4", "5", "6", "7", "8", "9" }

UpperChars == { UpperAlphabet[i] : i \in 1..26 }

LowerChars == { LowerAlphabet[i] : i \in 1..26 }

Whitespace == { " ", "\t", "\n" }

\* str.upper() on one character
UpperChar(c) ==
    IF c \in LowerChars
    THEN UpperAlphabet[CHOOSE i \in 1..26 : LowerAlphabet[i] = c]
    ELSE c

\* str.upper()
Upper(text) == [i \in 1..Len(text) |-> UpperChar(text[i])]

\* str.strip(): leading and trailing whitespace removed
RECURSIVE Strip(_)
Strip(text) ==
    IF text = << >> THEN text
    ELSE IF Head(text) \in Whitespace THEN Strip(Tail(text))
    ELSE IF text[Len(text)] \in Whitespace
         THEN Strip(SubSeq(text, 1, Len(text) - 1))
    ELSE text

\* str.replace(ch, '') for every ch of a set
RECURSIVE Remove(_, _)
Remove(text, chars) ==
    IF text = << >> THEN << >>
    ELSE IF Head(text) \in chars THEN Remove(Tail(text), chars)
    ELSE << Head(text) >> \o Remove(Tail(text), chars)

\* str.isdigit(): not empty and every character a digit
IsDigitStr(text) == text # << >> /\ \A i \in 1..Len(text) : text[i] \in DigitChars

\* str.isalpha(): not empty and every character a letter
IsAlphaStr(text) ==
    text # << >> /\ \A i \in 1..Len(text) : text[i] \in UpperChars \cup LowerChars

\* sum(1 for c in text if c.isdigit())
CountDigits(text) == Cardinality({ i \in 1..Len(text) : text[i] \in DigitChars })

\* sum(c.isalpha() for c in text)
CountLetters(text) ==
    Cardinality({ i \in 1..Len(text) : text[i] \in UpperChars \cup LowerChars })

\* re.sub(r'[^A-Z0-9]', '', text.upper().strip())
CleanText(text) ==
    LET u == Strip(Upper(text))
    IN  Remove(u, { u[i] : i \in 1..Len(u) } \ (UpperChars \cup DigitChars))

(***************************************************************************)
(* OCRConfig: the region rule and the validator.                           *)
(***************************************************************************)
\* BOLIVIA_CONFIG.patterns, "L" for [A-Z] and "D" for \d
BOLIVIA_PATTERNS ==
    << << "L", "L", "L", "D", "D", "D", "D" >>,
       << "D", "D", "D", "D", "L", "L", "L" >>,
       << "L", "L", "D", "D", "D", "L" >>,
       << "L", "L", "L", "D", "D", "D" >> >>

min_length == 6

max_length == 7

\* re.match of an anchored pattern of character classes
MatchesPattern(text, pattern) ==
    /\ Len(text) = Len(pattern)
    /\ \A i \in 1..Len(pattern) :
          IF pattern[i] = "L" THEN text[i] \in UpperChars
          ELSE text[i] \in DigitChars

MatchesAnyPattern(text) ==
    \E k \in 1..Len(BOLIVIA_PATTERNS) : MatchesPattern(text, BOLIVIA_PATTERNS[k])

\* text.strip().upper().replace(' ', '').replace('-', '')
NormalizePlate(text) == Remove(Upper(Strip(text)), { " ", "-" })

is_valid_plate_NoNormalize(text) ==
    /\ min_length <= Len(text)
    /\ Len(text) <= max_length
    /\ MatchesAnyPattern(text)

is_valid_plate(text) ==
    LET t == NormalizePlate(text)
    IN  /\ min_length <= Len(t)
        /\ Len(t) <= max_length
        /\ MatchesAnyPattern(t)

(***************************************************************************)
(* TesseractOCRService: the correctors.                                    *)
(***************************************************************************)
\* Python's None, as a text no OCR output can equal
None == << "<None>" >>

\* a plausible slip: "is not None" written for truthiness
Truthy_NotNone(text) == text # None

\* Python truthiness of an Optional[str]
Truthy(text) == text # None /\ text # << >>

\* digit positions 0-3 of the 1234ABC branch; i is the code's 0-based index
FixDigitFirstDigit(c, i) ==
    CASE c = "O" -> "0"
      [] c = "I" -> "1"
      [] c = "L" -> "1"
      [] c = "S" -> "5"
      [] c = "B" /\ i < 2 -> "8"
      [] c = "Z" -> "2"
      [] c = "G" -> "6"
      [] c = "T" -> "7"
      [] c = "F" -> "1"
      [] c = "A" /\ i = 0 -> "4"
      [] OTHER -> c

\* letter positions 4-6 of the 1234ABC branch, with the trailing U -> D
FixDigitFirstLetter(c, i) ==
    LET r == CASE c = "0" -> "O"
               [] c = "1" -> "I"
               [] c = "8" -> "B"
               [] c = "5" -> "S"
               [] c = "6" -> "G"
               [] c = "2" -> "Z"
               [] c = "7" -> "T"
               [] OTHER -> c
    IN  IF i = 6 /\ r = "U" THEN "D" ELSE r

\* letter positions 0-2 of the ABC1234 branch
FixLetterFirstLetter(c) ==
    CASE c = "0" -> "O"
      [] c = "1" -> "I"
      [] c = "8" -> "B"
      [] c = "5" -> "S"
      [] OTHER -> c

\* a plausible slip: T -> 7 in the ABC1234 branch too
FixLetterFirstDigit_WithT(c) ==
    CASE c = "O" -> "0"
      [] c = "I" -> "1"
      [] c = "L" -> "1"
      [] c = "S" -> "5"
      [] c = "B" -> "8"
      [] c = "Z" -> "2"
      [] c = "G" -> "6"
      [] c = "T" -> "7"
      [] OTHER -> c

\* digit positions 3-6 of the ABC1234 branch
FixLetterFirstDigit(c) ==
    CASE c = "O" -> "0"
      [] c = "I" -> "1"
      [] c = "L" -> "1"
      [] c = "S" -> "5"
      [] c = "B" -> "8"
      [] c = "Z" -> "2"
      [] c = "G" -> "6"
      [] OTHER -> c

fix_common_ocr_errors(text) ==
    IF Len(text) < 6 THEN text
    ELSE LET t == Strip(Upper(text))
         IN  IF Len(t) = 7 /\ CountDigits(SubSeq(t, 1, 4)) >= 2
             THEN [i \in 1..7 |->
                     IF i <= 4 THEN FixDigitFirstDigit(t[i], i - 1)
                     ELSE FixDigitFirstLetter(t[i], i - 1)]
             ELSE IF Len(t) = 7 /\ CountDigits(SubSeq(t, 4, 7)) >= 2
             THEN [i \in 1..7 |->
                     IF i <= 3 THEN FixLetterFirstLetter(t[i])
                     ELSE FixLetterFirstDigit(t[i])]
             ELSE t

\* .replace('O','0').replace('I','1').replace('L','1').replace('S','5').replace('B','8')
SmartDigit5(c) ==
    CASE c = "O" -> "0"
      [] c = "I" -> "1"
      [] c = "L" -> "1"
      [] c = "S" -> "5"
      [] c = "B" -> "8"
      [] OTHER -> c

\* the same chain followed by .replace('Z','2').replace('G','6')
SmartDigit7(c) ==
    CASE c = "Z" -> "2"
      [] c = "G" -> "6"
      [] OTHER -> SmartDigit5(c)

\* .replace('O','0').replace('I','1')
SmartDigit2(c) ==
    CASE c = "O" -> "0"
      [] c = "I" -> "1"
      [] OTHER -> c

\* .replace('0','O').replace('1','I').replace('8','B').replace('5','S')
SmartLetter4(c) ==
    CASE c = "0" -> "O"
      [] c = "1" -> "I"
      [] c = "8" -> "B"
      [] c = "5" -> "S"
      [] OTHER -> c

\* the same chain followed by .replace('6','G').replace('2','Z')
SmartLetter6(c) ==
    CASE c = "6" -> "G"
      [] c = "2" -> "Z"
      [] OTHER -> SmartLetter4(c)

\* the replace chains applied to a whole text
SmartDigit5Str(text) == [i \in 1..Len(text) |-> SmartDigit5(text[i])]

SmartDigit7Str(text) == [i \in 1..Len(text) |-> SmartDigit7(text[i])]

SmartDigit2Str(text) == [i \in 1..Len(text) |-> SmartDigit2(text[i])]

SmartLetter6Str(text) == [i \in 1..Len(text) |-> SmartLetter6(text[i])]

\* the 4 digits + 3 letters candidate (score 100)
SmartCandidateDigitFirst(t) ==
    SmartDigit7Str(SubSeq(t, 1, 4)) \o SmartLetter6Str(SubSeq(t, 5, 7))

\* the 3 letters + 4 digits candidate (score 100)
SmartCandidateLetterFirst(t) ==
    SmartLetter6Str(SubSeq(t, 1, 3)) \o SmartDigit7Str(SubSeq(t, 4, 7))

\* the character-by-character candidate (score 90)
SmartCorrected(t) ==
    [i \in 1..7 |-> IF i <= 4 THEN SmartDigit5(t[i]) ELSE SmartLetter4(t[i])]

\* a plausible slip: the corrected candidates left out
apply_smart_corrections_RawOnly(text) == << << Strip(Upper(text)), 0 >> >>

\* a plausible slip: the position-by-position candidate kept without
\* validating it
apply_smart_corrections_Unvalidated(text) ==
    LET t == Strip(Upper(text))
    IN  IF Len(t) # 7 THEN << << t, 0 >> >>
        ELSE IF CountDigits(t) < 3 \/ CountLetters(t) < 2 THEN << << t, 0 >> >>
        ELSE
          LET c1 == SmartCandidateDigitFirst(t)
              c2 == SmartCandidateLetterFirst(t)
              c3 == SmartCorrected(t)
              l1 == IF /\ IsDigitStr(SmartDigit5Str(SubSeq(t, 1, 4)))
                       /\ c1 # t
                       /\ is_valid_plate(c1)
                    THEN << << c1, 100 >> >> ELSE << >>
              l2 == IF /\ \/ IsDigitStr(SmartDigit2Str(SubSeq(t, 5, 7)))
                          \/ CountLetters(t) >= 3
                       /\ c2 # t
                       /\ is_valid_plate(c2)
                    THEN << << c2, 100 >> >> ELSE << >>
              l3 == IF c3 # t THEN << << c3, 90 >> >> ELSE << >>
              candidates == l1 \o l2 \o l3
          IN  IF candidates = << >> THEN << << t, 0 >> >>
              ELSE SubSeq(candidates, 1, IF Len(candidates) < 3 THEN Len(candidates) ELSE 3)

apply_smart_corrections(text) ==
    LET t == Strip(Upper(text))
    IN  IF Len(t) # 7 THEN << << t, 0 >> >>
        ELSE IF CountDigits(t) < 3 \/ CountLetters(t) < 2 THEN << << t, 0 >> >>
        ELSE
          LET c1 == SmartCandidateDigitFirst(t)
              c2 == SmartCandidateLetterFirst(t)
              c3 == SmartCorrected(t)
              l1 == IF /\ IsDigitStr(SmartDigit5Str(SubSeq(t, 1, 4)))
                       /\ c1 # t
                       /\ is_valid_plate(c1)
                    THEN << << c1, 100 >> >> ELSE << >>
              l2 == IF /\ \/ IsDigitStr(SmartDigit2Str(SubSeq(t, 5, 7)))
                          \/ CountLetters(t) >= 3
                       /\ c2 # t
                       /\ is_valid_plate(c2)
                    THEN << << c2, 100 >> >> ELSE << >>
              l3 == IF c3 # t /\ is_valid_plate(c3)
                    THEN << << c3, 90 >> >> ELSE << >>
              candidates == l1 \o l2 \o l3
          IN  IF candidates = << >> THEN << << t, 0 >> >>
              ELSE SubSeq(candidates, 1, IF Len(candidates) < 3 THEN Len(candidates) ELSE 3)

\* to_digit of _force_bolivian_format
ForceToDigit(c) ==
    CASE c = "O" -> "0"
      [] c = "I" -> "1"
      [] c = "L" -> "1"
      [] c = "S" -> "5"
      [] c = "B" -> "8"
      [] c = "Z" -> "2"
      [] c = "G" -> "6"
      [] c = "T" -> "7"
      [] c = "A" -> "4"
      [] c = "F" -> "1"
      [] OTHER -> c

\* to_letter of _force_bolivian_format
ForceToLetter(c) ==
    CASE c = "0" -> "O"
      [] c = "1" -> "I"
      [] c = "8" -> "B"
      [] c = "5" -> "S"
      [] c = "6" -> "G"
      [] c = "2" -> "Z"
      [] c = "7" -> "T"
      [] c = "4" -> "A"
      [] OTHER -> c

\* a digit stays, a letter is looked up in to_digit
ForceDigit(c) == IF c \in DigitChars THEN c ELSE ForceToDigit(c)

\* a letter stays, a digit is looked up in to_letter
ForceLetter(c) == IF c \in UpperChars \cup LowerChars THEN c ELSE ForceToLetter(c)

\* the look-ups applied to a whole text
ForceDigitStr(text) == [i \in 1..Len(text) |-> ForceDigit(text[i])]

ForceLetterStr(text) == [i \in 1..Len(text) |-> ForceLetter(text[i])]

ForceToDigitStr(text) == [i \in 1..Len(text) |-> ForceToDigit(text[i])]

\* a plausible slip: the letter-first reading tried before the digit-first
force_bolivian_format_LetterFirst(text) ==
    IF Len(text) # 7 THEN None
    ELSE
      LET t == Upper(text)
          candidate1 == ForceDigitStr(SubSeq(t, 1, 4))
                          \o ForceLetterStr(SubSeq(t, 5, 7))
          candidate2 == ForceLetterStr(SubSeq(t, 1, 3))
                          \o ForceDigitStr(SubSeq(t, 4, 7))
      IN  IF IsAlphaStr(SubSeq(candidate2, 1, 3)) /\ IsDigitStr(SubSeq(candidate2, 4, 7))
          THEN candidate2
          ELSE IF IsDigitStr(SubSeq(candidate1, 1, 4))
                  /\ IsAlphaStr(SubSeq(candidate1, 5, 7))
          THEN candidate1
          ELSE None

\* _force_bolivian_format: 4 digits + 3 letters, else 3 letters + 4 digits,
\* else None
force_bolivian_format(text) ==
    IF Len(text) # 7 THEN None
    ELSE
      LET t == Upper(text)
          candidate1 == ForceDigitStr(SubSeq(t, 1, 4))
                          \o ForceLetterStr(SubSeq(t, 5, 7))
          candidate2 == ForceLetterStr(SubSeq(t, 1, 3))
                          \o ForceDigitStr(SubSeq(t, 4, 7))
      IN  IF IsDigitStr(SubSeq(candidate1, 1, 4)) /\ IsAlphaStr(SubSeq(candidate1, 5, 7))
          THEN candidate1
          ELSE IF IsAlphaStr(SubSeq(candidate2, 1, 3))
                  /\ IsDigitStr(SubSeq(candidate2, 4, 7))
          THEN candidate2
          ELSE None

(***************************************************************************)
(* TesseractOCRService.read_plate: the strategies and one pass.            *)
(***************************************************************************)
\* DEFAULT_STRATEGY.min_confidence, the confidence of a validated plate
min_confidence == 70

\* DEFAULT_STRATEGY.fragment_threshold
fragment_threshold == 20

\* a plausible slip: a forced plate scored above a validated one
ForcedConfidence_Raised == min_confidence + 5

\* the confidence returned with a plate accepted through forced correction
ForcedConfidence == 65

\* the confidence returned with an unvalidated 7-character candidate
UnvalidatedConfidence == 50

\* the strategy names, in the order read_plate appends them
Strategies(preprocess) ==
    (IF preprocess
     THEN << "preprocesada + PSM 7", "preprocesada + PSM 8", "preprocesada + PSM 6",
             "agresiva + PSM 7", "agresiva + PSM 8", "otsu + PSM 7" >>
     ELSE << >>)
    \o << "original + PSM 7", "original + PSM 8" >>

\* strategy_name + " (corr)"
CorrName(name) ==
    CASE name = "preprocesada + PSM 7" -> "preprocesada + PSM 7 (corr)"
      [] name = "preprocesada + PSM 8" -> "preprocesada + PSM 8 (corr)"
      [] name = "preprocesada + PSM 6" -> "preprocesada + PSM 6 (corr)"
      [] name = "agresiva + PSM 7" -> "agresiva + PSM 7 (corr)"
      [] name = "agresiva + PSM 8" -> "agresiva + PSM 8 (corr)"
      [] name = "otsu + PSM 7" -> "otsu + PSM 7 (corr)"
      [] name = "original + PSM 7" -> "original + PSM 7 (corr)"
      [] name = "original + PSM 8" -> "original + PSM 8 (corr)"

InSeq(x, seq) == \E k \in 1..Len(seq) : seq[k] = x

AppendNew(seq, x) == IF InSeq(x, seq) THEN seq ELSE Append(seq, x)

\* all_candidates after corrected_text is recorded (6 to 10 characters)
RecordCorrected(all, corrected, name) ==
    IF Len(corrected) >= 6 /\ Len(corrected) <= 10
    THEN Append(all, << corrected, name >>)
    ELSE all

\* the loop over correction_candidates: << all_candidates, potential_plates >>
RECURSIVE CandidateLoop(_, _, _, _)
CandidateLoop(cands, all, potential, name) ==
    IF cands = << >> THEN << all, potential >>
    ELSE
      LET candidate == Head(cands)[1]
          all2 == IF Len(candidate) >= 6 /\ ~InSeq(<< candidate, name >>, all)
                  THEN Append(all, << candidate, CorrName(name) >>)
                  ELSE all
          pot2 == IF is_valid_plate(candidate)
                  THEN AppendNew(potential, candidate)
                  ELSE potential
      IN  IF candidate = << >>
          THEN CandidateLoop(Tail(cands), all, potential, name)
          ELSE CandidateLoop(Tail(cands), all2, pot2, name)

\* potential_plates after corrected_text and cleaned_text are validated
ValidateTexts(potential, cleaned, corrected) ==
    LET p1 == IF corrected # << >> /\ is_valid_plate(corrected)
              THEN AppendNew(potential, corrected)
              ELSE potential
    IN  IF cleaned # << >> /\ cleaned # corrected /\ is_valid_plate(cleaned)
        THEN AppendNew(p1, cleaned)
        ELSE p1

\* the loop over image_to_data's words: a fragment is << text, conf >>
RECURSIVE FragmentLoop(_, _)
FragmentLoop(frags, potential) ==
    IF frags = << >> THEN potential
    ELSE
      LET text == fix_common_ocr_errors(CleanText(Head(frags)[1]))
      IN  IF /\ Head(frags)[2] > fragment_threshold
             /\ Len(text) >= 5
             /\ ~InSeq(text, potential)
             /\ is_valid_plate(text)
          THEN FragmentLoop(Tail(frags), Append(potential, text))
          ELSE FragmentLoop(Tail(frags), potential)

\* [p for p in potential_plates if is_valid_plate(p)]
RECURSIVE ValidPlates(_)
ValidPlates(potential) ==
    IF potential = << >> THEN << >>
    ELSE IF is_valid_plate(Head(potential))
         THEN << Head(potential) >> \o ValidPlates(Tail(potential))
         ELSE ValidPlates(Tail(potential))

\* max(valid_plates, key=len): the first plate of maximal length
MaxByLen(plates) ==
    plates[CHOOSE k \in 1..Len(plates) :
              /\ \A j \in 1..Len(plates) : Len(plates[j]) <= Len(plates[k])
              /\ \A j \in 1..(k - 1) : Len(plates[j]) < Len(plates[k])]

\* len(best_result or '')
LenOrEmpty(best) == IF Truthy(best) THEN Len(best) ELSE 0

\* a plausible slip: a later plate of the same length replaces the best one
UpdateBest_LastWins(best, conf, potential) ==
    LET plates == ValidPlates(potential)
    IN  IF potential # << >> /\ plates # << >>
           /\ \/ min_confidence > conf
              \/ (min_confidence = conf /\ Len(MaxByLen(plates)) >= LenOrEmpty(best))
        THEN << MaxByLen(plates), min_confidence >>
        ELSE << best, conf >>

\* best_plate of a pass, when it has valid_plates, added to those of the
\* passes before it
RecordBestPlate(plates, potential) ==
    IF ValidPlates(potential) # << >>
    THEN Append(plates, MaxByLen(ValidPlates(potential)))
    ELSE plates

\* "Actualizar mejor resultado": << best_result, best_confidence >>
UpdateBest(best, conf, potential) ==
    LET plates == ValidPlates(potential)
    IN  IF potential # << >> /\ plates # << >>
           /\ \/ min_confidence > conf
              \/ (min_confidence = conf /\ Len(MaxByLen(plates)) > LenOrEmpty(best))
        THEN << MaxByLen(plates), min_confidence >>
        ELSE << best, conf >>

\* best_plate of a pass whose cleaned_text is given: the candidate loop, the
\* validation of corrected_text and cleaned_text, and max(valid_plates,
\* key=len); None when the pass has no valid plate of its own text
PassPlate(cleaned, name) ==
    LET corrected == fix_common_ocr_errors(cleaned)
        looped == CandidateLoop(apply_smart_corrections(corrected),
                                RecordCorrected(<< >>, corrected, name),
                                << >>, name)
        plates == ValidPlates(ValidateTexts(looped[2], cleaned, corrected))
    IN  IF plates = << >> THEN None ELSE MaxByLen(plates)

\* forced, in the loop over all_candidates, for one candidate
Forced(candidate) ==
    IF Len(candidate) >= 6 /\ Len(candidate) <= 8
    THEN force_bolivian_format(candidate)
    ELSE None

\* the forced-correction loop over all_candidates: the first forced plate
\* that validates, or None
RECURSIVE ForcedLoop(_)
ForcedLoop(all) ==
    IF all = << >> THEN None
    ELSE
      LET forced == Forced(Head(all)[1])
      IN  IF Truthy(forced) /\ is_valid_plate(forced)
          THEN forced
          ELSE ForcedLoop(Tail(all))

\* a plausible slip: the last attempt takes the first candidate as it is
LastAttemptLoop_First(all) == IF all = << >> THEN None ELSE Head(all)[1]

\* the last attempt: the first 7-character candidate that mixes digits and
\* letters, or None
RECURSIVE LastAttemptLoop(_)
LastAttemptLoop(all) ==
    IF all = << >> THEN None
    ELSE
      LET candidate == Head(all)[1]
      IN  IF Len(candidate) = 7 /\ CountDigits(candidate) > 0
             /\ CountLetters(candidate) > 0
          THEN candidate
          ELSE LastAttemptLoop(Tail(all))

(***************************************************************************)
(* TesseractOCRService.preprocess_plate_image.  An image is the sequence   *)
(* of what was done to obtain it: how it was decoded, from which bytes,    *)
(* and the transforms applied since.  image_bytes is "small", "medium" or  *)
(* "large" for a decodable image narrower than min_width_scale, between    *)
(* the two limits or wider than max_width_scale, "corrupt" for bytes that  *)
(* are no image, and "empty" for no bytes at all.                          *)
(***************************************************************************)
PreBytes == { "small", "medium", "large", "corrupt", "empty" }

PreStrategies == { "normal", "shadow", "worn", "otsu", "plate_detect" }

NoImage == << "None" >>

Raises == << "raises" >>

\* cv2.imdecode(np.frombuffer(image_bytes, np.uint8), flag): None for bytes
\* that are no image; for an empty buffer an error or None, as the OpenCV
\* build has it
imdecode(bytes, flag) ==
    CASE bytes = "empty" -> { Raises, NoImage }
      [] bytes = "corrupt" -> { NoImage }
      [] OTHER -> { << flag, bytes >> }

\* step 1: the resize the width calls for
PreResizing(bytes) ==
    CASE bytes = "small" -> << "resize scale_factor_small" >>
      [] bytes = "large" -> << "resize target_width" >>
      [] OTHER -> << >>

\* the transforms of a strategy, before the common filters
PreStrategyTransforms(strategy) ==
    CASE strategy = "shadow" -> << "GaussianBlur 21", "divide" >>
      [] strategy = "worn" -> << "fastNlMeansDenoising" >>
      [] strategy = "otsu" -> << "GaussianBlur 5", "THRESH_OTSU" >>
      [] OTHER -> << >>

\* steps 3 to 7
PreFilters(aggressive) ==
    << "bilateralFilter",
       IF aggressive THEN "CLAHE 3.0" ELSE "CLAHE 2.0",
       "filter2D", "adaptiveThreshold", "MORPH_CLOSE" >>
    \o (IF aggressive THEN << "MORPH_OPEN" >> ELSE << >>)

(***************************************************************************)
(* AzureComputerVisionService.read_plate.  A line is << text, confidence >>.*)
(***************************************************************************)
\* the patterns of _is_valid_plate: ABC-?1234, 1234-?ABC, AB123C
AzureIsValidPlate(text) ==
    LET t == Remove(Upper(Strip(text)), { " " })
        Without(k) == SubSeq(t, 1, k - 1) \o SubSeq(t, k + 1, Len(t))
    IN  \/ MatchesPattern(t, BOLIVIA_PATTERNS[1])
        \/ Len(t) = 8 /\ t[4] = "-" /\ MatchesPattern(Without(4), BOLIVIA_PATTERNS[1])
        \/ MatchesPattern(t, BOLIVIA_PATTERNS[2])
        \/ Len(t) = 8 /\ t[5] = "-" /\ MatchesPattern(Without(5), BOLIVIA_PATTERNS[2])
        \/ MatchesPattern(t, BOLIVIA_PATTERNS[3])

\* the stripped texts of the lines that look like a plate
RECURSIVE AzureValidLines(_)
AzureValidLines(lines) ==
    IF lines = << >> THEN << >>
    ELSE IF AzureIsValidPlate(Strip(Head(lines)[1]))
         THEN << Head(lines) >> \o AzureValidLines(Tail(lines))
         ELSE AzureValidLines(Tail(lines))

\* a plausible slip: the confidences of the valid lines added up
RECURSIVE AzureMaxConfidence_Sum(_)
AzureMaxConfidence_Sum(lines) ==
    IF lines = << >> THEN 0
    ELSE Head(lines)[2] + AzureMaxConfidence_Sum(Tail(lines))

\* max_confidence over the valid lines, from 0.0
RECURSIVE AzureMaxConfidence(_)
AzureMaxConfidence(lines) ==
    IF lines = << >> THEN 0
    ELSE LET rest == AzureMaxConfidence(Tail(lines))
         IN  IF Head(lines)[2] > rest THEN Head(lines)[2] ELSE rest

\* a plausible slip: the confidence taken over the lines that are returned,
\* valid or not
AzureFromLines_ConfidenceOfAll(lines) ==
    LET valid == AzureValidLines(lines)
        chosen == IF valid # << >> THEN valid ELSE lines
        all_text == [k \in 1..Len(chosen) |-> Strip(chosen[k][1])]
    IN  IF all_text = << >> THEN << None, 0 >>
        ELSE << Remove(Upper(MaxByLen(all_text)), { " ", "-" }),
                AzureMaxConfidence(chosen) >>

\* what read_plate makes of the lines of a succeeded read operation
AzureFromLines(lines) ==
    LET valid == AzureValidLines(lines)
        chosen == IF valid # << >> THEN valid ELSE lines
        all_text == [k \in 1..Len(chosen) |-> Strip(chosen[k][1])]
    IN  IF all_text = << >> THEN << None, 0 >>
        ELSE << Remove(Upper(MaxByLen(all_text)), { " ", "-" }),
                AzureMaxConfidence(valid) >>

\* read_plate for one outcome of the remote read: it raised (caught at line
\* 221), the operation failed or timed out, or it returned lines
AzureReadPlate(remote) ==
    IF remote.kind = "lines" THEN AzureFromLines(remote.lines)
    ELSE << None, 0 >>

(***************************************************************************)
(* mantenimiento.models.TareaMantenimiento.  Dates and datetimes are day   *)
(* numbers, a null one is SinFecha; a text field is a sequence of pieces;  *)
(* a missing person or cost is "None".                                     *)
(***************************************************************************)
SinFecha == 0

\* the fields the methods read or write, as creation leaves them: the
\* defaults, and what the creator gave for the fields that have none or are
\* free (costo_real defaults to "0.00", observaciones to blank)
TareaNueva(fecha_limite, costo_real, observaciones) ==
    [ estado |-> "pendiente",
      personal_asignado |-> "None",
      fecha_asignacion |-> SinFecha,
      fecha_limite |-> fecha_limite,
      fecha_inicio |-> SinFecha,
      fecha_completado |-> SinFecha,
      costo_real |-> costo_real,
      observaciones |-> observaciones ]

\* a call: the method, its arguments (None for those it does not take; texto
\* is observaciones or motivo) and the day it was made
Llamada(metodo, personal, costo_real, texto, dia) ==
    [ metodo |-> metodo, personal |-> personal, costo_real |-> costo_real,
      texto |-> texto, dia |-> dia ]

\* a plausible slip: overdue from the day of the limit itself
esta_vencida_OnTheDay(t, today) ==
    IF t.estado \in { "completada", "cancelada" }
    THEN FALSE
    ELSE today >= t.fecha_limite

\* esta_vencida
esta_vencida(t, today) ==
    IF t.estado \in { "completada", "cancelada" }
    THEN FALSE
    ELSE today > t.fecha_limite

\* a plausible slip: the estado set without looking at the present one
asignar_a_AlwaysAsignada(t, personal, now) ==
    [ t EXCEPT !.personal_asignado = personal,
               !.fecha_asignacion = now,
               !.estado = "asignada" ]

\* asignar_a, before save
asignar_a(t, personal, now) ==
    [ t EXCEPT !.personal_asignado = personal,
               !.fecha_asignacion = now,
               !.estado = IF @ = "pendiente" THEN "asignada" ELSE @ ]

\* a plausible slip: no test of the estado
iniciar_trabajo_AnyEstado(t, now) ==
    << [ t EXCEPT !.estado = "en_progreso", !.fecha_inicio = now ], TRUE, TRUE >>

\* iniciar_trabajo: << the instance, it was saved, the value returned >>
iniciar_trabajo(t, now) ==
    IF t.estado \in { "pendiente", "asignada" }
    THEN << [ t EXCEPT !.estado = "en_progreso", !.fecha_inicio = now ], TRUE, TRUE >>
    ELSE << t, FALSE, FALSE >>

\* a plausible slip: a missing cost stored as the default
completar_DefaultCost(t, costo_real, observaciones, now) ==
    [ t EXCEPT !.estado = "completada",
               !.fecha_completado = now,
               !.costo_real = IF costo_real # "None" THEN costo_real ELSE "0.00",
               !.observaciones = IF Truthy(observaciones) THEN observaciones ELSE @ ]

\* completar, before save
completar(t, costo_real, observaciones, now) ==
    [ t EXCEPT !.estado = "completada",
               !.fecha_completado = now,
               !.costo_real = IF costo_real # "None" THEN costo_real ELSE @,
               !.observaciones = IF Truthy(observaciones) THEN observaciones ELSE @ ]

\* a plausible slip: the previous observations dropped
cancelar_Replaces(t, motivo) ==
    [ t EXCEPT !.estado = "cancelada",
               !.observaciones = IF Truthy(motivo)
                                 THEN << "CANCELADA: " >> \o motivo \o << "\n" >>
                                 ELSE @ ]

\* cancelar, before save
cancelar(t, motivo) ==
    [ t EXCEPT !.estado = "cancelada",
               !.observaciones = IF Truthy(motivo)
                                 THEN << "CANCELADA: " >> \o motivo \o << "\n" >> \o @
                                 ELSE @ ]

(***************************************************************************)
(* State.  v_*: one call of is_valid_plate.  c_*: the corrector applied to  *)
(* one text, once and then again to its own output.                        *)
(***************************************************************************)
VARIABLES v_text, v_pc, v_result,
          c_text, c_pc, c_fixed, c_cands,
          c_plate,         \* the plate the pass selects from the text's candidates
          c_forced,        \* what the forced correction makes of the text
          c_refixed,       \* _fix_common_ocr_errors applied to its own output
          pc,              \* where the recognition call stands
          image,           \* "ok", or "unreadable" (no image, unreadable path)
          azure_cv,        \* AIOrchestrator._azure_cv is loaded
          tesseract,       \* AIOrchestrator._tesseract is loaded
          available,       \* TesseractOCRService.available
          cloud,           \* how the cloud step ended
          cloud_result,    \* what the cloud service's read_plate returned
          executed,        \* the strategies whose OCR pass was run, in order
          raised,          \* the strategies whose pass raised
          noisy,           \* passes so far that raised or produced text
          all_candidates,  \* read_plate's all_candidates
          best_result,     \* read_plate's best_result
          best_confidence, \* read_plate's best_confidence
          any_valid,       \* some pass had a non-empty valid_plates
          best_plates,     \* best_plate of each pass that had one, in order
          trace,           \* the states of the fallback chain entered so far
          outcome,         \* how the call ended
          result,          \* << plate_text, confidence >> returned to the caller
          p_pc,            \* preprocess_plate_image: the step it is at
          p_bytes,         \* preprocess_plate_image: what image_bytes holds
          p_strategy,      \* preprocess_plate_image: its strategy argument
          p_aggressive,    \* preprocess_plate_image: its aggressive argument
          p_img,           \* preprocess_plate_image: the transforms applied so far
          p_out,           \* preprocess_plate_image: how the call ended
          tarea,           \* a TareaMantenimiento instance
          antes,           \* its fields before the last call
          llamada,         \* the last method called on it, with its arguments
          ret,             \* what that call returned
          fila,            \* its row, as last saved
          hoy,             \* timezone.now().date()
          llamadas,        \* calls made so far
          poll_pc,         \* AzureComputerVisionService.read_plate: the step it is at
          polls,           \* calls of get_read_result made so far
          statuses,        \* the result.status of each call that returned
          sleeps,          \* calls of time.sleep(0.5) made so far
          poll_out         \* what that read_plate returned

validVars == << v_text, v_pc, v_result >>

corrVars == << c_text, c_pc, c_fixed, c_cands, c_plate, c_forced, c_refixed >>

localVars == << executed, raised, noisy, all_candidates, best_result,
                best_confidence, any_valid, best_plates >>

callVars == << pc, image, azure_cv, tesseract, available, cloud,
               cloud_result, trace, outcome, result >>

preVars == << p_pc, p_bytes, p_strategy, p_aggressive, p_img, p_out >>

tareaVars == << tarea, antes, llamada, ret, fila, hoy, llamadas >>

pollVars == << poll_pc, polls, statuses, sleeps, poll_out >>

vars == << validVars, corrVars, localVars, callVars, preVars, tareaVars,
           pollVars >>

(***************************************************************************)
(* Bounds of the pure-function specifications.                             *)
(***************************************************************************)
\* how many characters of ValidCharPool the validator's inputs are drawn from
NumValidChars == 4

\* how many characters of CorrCharPool the corrector's inputs are drawn from
NumCorrChars == 4

ValidCharPool == << "A", "1", "a", "-", " ", "\t", "b", "2" >>

CorrCharPool == << "1", "A", "B", "U", "O", "5", "S", "X", "T", "Z" >>

ValidAlphabet == { ValidCharPool[i] : i \in 1..NumValidChars }

CorrAlphabet == { CorrCharPool[i] : i \in 1..NumCorrChars }

\* every text of min_length - 1 to max_length + 1 characters
ValidTexts ==
    UNION { [1..n -> ValidAlphabet] : n \in (min_length - 1)..(max_length + 1) }

\* the texts the specification's own scenarios name
Text12B4ABC == << "1", "2", "B", "4", "A", "B", "C" >>

Text1284ABC == << "1", "2", "8", "4", "A", "B", "C" >>

Text1852PHD == << "1", "8", "5", "2", "P", "H", "D" >>

Text12B4PHO == << "1", "2", "B", "4", "P", "H", "O" >>

ScenarioTexts == { Text12B4ABC, Text1284ABC, Text1852PHD, Text12B4PHO }

\* texts that reach the entries of the correction tables the pool lacks, and
\* one of max_length + 1 characters
TableTexts ==
    { << "1", "O", "I", "2", "0", "8", "1" >>,
      << "1", "S", "Z", "2", "5", "6", "2" >>,
      << "1", "G", "T", "2", "7", "A", "U" >>,
      << "1", "F", "L", "2", "A", "B", "C" >>,
      << "A", "1", "2", "B", "A", "B", "C" >>,
      << "1", "2", "3", "4", "A", "B", "4" >>,
      << "A", "6", "C", "O", "1", "2", "3" >>,
      << "A", "8", "C", "I", "2", "S", "4" >>,
      << "A", "B", "C", "Z", "G", "1", "2" >>,
      << "A", "B", "C", "1", "B", "T", "4" >>,
      << "A", "B", "C", "1", "F", "3", "4" >>,
      << "1", "8", "5", "2", "P", "H", "D", "X" >>,
      << "A", "2", "C", "O", "1", "2", "3" >>,
      << "1", "2", "3", "4", "A", "B", "C" >> }

\* every text of min_length to max_length characters, the scenarios and the
\* table texts
CorrTexts ==
    UNION { [1..n -> CorrAlphabet] : n \in min_length..max_length }
        \cup ScenarioTexts \cup TableTexts

ValidIdle == v_text = << >> /\ v_pc = "idle" /\ v_result = FALSE

CorrIdle ==
    /\ c_text = << >>
    /\ c_pc = "idle"
    /\ c_fixed = << >>
    /\ c_cands = << >>
    /\ c_plate = None
    /\ c_forced = None
    /\ c_refixed = << >>

LocalFresh ==
    /\ executed = << >>
    /\ raised = << >>
    /\ noisy = 0
    /\ all_candidates = << >>
    /\ best_result = None
    /\ best_confidence = 0
    /\ any_valid = FALSE
    /\ best_plates = << >>

CallIdle ==
    /\ pc = "idle"
    /\ image = "ok"
    /\ azure_cv = FALSE
    /\ tesseract = FALSE
    /\ available = FALSE
    /\ cloud = "pending"
    /\ cloud_result = << None, 0 >>
    /\ trace = << >>
    /\ outcome = "pending"
    /\ result = << None, 0 >>
    /\ LocalFresh

PreIdle ==
    /\ p_pc = "idle"
    /\ p_bytes = "medium"
    /\ p_strategy = "normal"
    /\ p_aggressive = FALSE
    /\ p_img = NoImage
    /\ p_out = "pending"

TareaIdle ==
    /\ tarea = TareaNueva(1, "0.00", << >>)
    /\ antes = tarea
    /\ fila = tarea
    /\ llamada = Llamada("idle", "None", "None", None, 1)
    /\ ret = TRUE
    /\ hoy = 1
    /\ llamadas = 0

\* read_plate of the cloud service has not returned
NotReturned == << << "pending" >>, 0 >>

PollIdle ==
    /\ poll_pc = "idle"
    /\ polls = 0
    /\ statuses = << >>
    /\ sleeps = 0
    /\ poll_out = NotReturned

(***************************************************************************)
(* SpecValid: OCRConfig.is_valid_plate on every text of ValidTexts.        *)
(***************************************************************************)
InitValid ==
    /\ v_text \in ValidTexts
    /\ v_pc = "input"
    /\ v_result = FALSE
    /\ CorrIdle
    /\ CallIdle
    /\ PreIdle
    /\ TareaIdle
    /\ PollIdle

CallIsValidPlate ==
    /\ v_pc = "input"
    /\ v_result' = is_valid_plate(v_text)
    /\ v_pc' = "done"
    /\ UNCHANGED << pollVars, preVars, tareaVars, v_text, corrVars, localVars, callVars >>

NextValid == CallIsValidPlate

SpecValid == InitValid /\ [][NextValid]_vars

(***************************************************************************)
(* SpecCorrect: the corrector of one OCR pass, _fix_common_ocr_errors      *)
(* followed by _apply_smart_corrections, on every text of CorrTexts, with  *)
(* the plate the pass selects from it and what the forced correction makes *)
(* of it; and then the corrector once more on the first candidate it       *)
(* returned.                                                               *)
(***************************************************************************)
InitCorrect ==
    /\ c_text \in CorrTexts
    /\ c_pc = "input"
    /\ c_fixed = << >>
    /\ c_cands = << >>
    /\ c_plate = None
    /\ c_forced = None
    /\ c_refixed = << >>
    /\ ValidIdle
    /\ CallIdle
    /\ PreIdle
    /\ TareaIdle
    /\ PollIdle

CorrectOnce ==
    /\ c_pc = "input"
    /\ c_fixed' = fix_common_ocr_errors(c_text)
    /\ c_cands' = apply_smart_corrections(fix_common_ocr_errors(c_text))
    /\ c_plate' = PassPlate(c_text, Strategies(TRUE)[1])
    /\ c_forced' = Forced(c_text)
    /\ c_pc' = "once"
    /\ UNCHANGED << pollVars, preVars, tareaVars, c_text, c_refixed, validVars, localVars,
                    callVars >>

CorrectAgain ==
    /\ c_pc = "once"
    /\ c_fixed' = fix_common_ocr_errors(c_cands[1][1])
    /\ c_cands' = apply_smart_corrections(fix_common_ocr_errors(c_cands[1][1]))
    /\ c_pc' = "twice"
    /\ UNCHANGED << pollVars, preVars, tareaVars, c_text, c_plate, c_forced, c_refixed,
                    validVars, localVars, callVars >>

\* _fix_common_ocr_errors on what it returned
FixAgain ==
    /\ c_pc = "once"
    /\ c_refixed' = fix_common_ocr_errors(c_fixed)
    /\ c_pc' = "refixed"
    /\ UNCHANGED << pollVars, preVars, tareaVars, c_text, c_fixed, c_cands, c_plate, c_forced,
                    validVars, localVars, callVars >>

NextCorrect == CorrectOnce \/ CorrectAgain \/ FixAgain

SpecCorrect == InitCorrect /\ [][NextCorrect]_vars

(***************************************************************************)
(* Spec: one call of AIOrchestrator.read_plate.  The remote read and the   *)
(* OCR engine are the environment: each call of them takes one of the      *)
(* outcomes below.                                                         *)
(***************************************************************************)
\* at most this many of the passes of one call raise or produce text; the
\* other passes read nothing
MaxNoisyPasses == 2

\* what image_to_string returns: nothing, or one of the readings
EmptyReading == << "\n" >>

ReadingValid == << "1", "2", "B", "4", "A", "B", "C", "\n" >>

ReadingForced == << "I", "B", "5", "Z", "P", "H", "D", "\n" >>

ReadingMixed == << "1", "2", "X", "Y", "C", "D", "E", "\n" >>

ReadingBrand == << "T", "O", "Y", "O", "T", "A", "\n" >>

ReadingShort == << "A", "B", "C", "1", "2", "3", "\n" >>

Readings == { ReadingValid, ReadingForced, ReadingMixed, ReadingBrand, ReadingShort }

\* lines 543-560 for each reading:
\* << cleaned_text, corrected_text, correction_candidates >>
ReadingCorrections ==
    [full_text \in Readings \cup { EmptyReading } |->
        LET cleaned == CleanText(full_text)
            corrected == fix_common_ocr_errors(cleaned)
        IN  << cleaned, corrected, apply_smart_corrections(corrected) >>]

\* the texts of one pass up to the fragment search:
\* << all_candidates, potential_plates >>
PassTexts(all, full_text, name) ==
    LET cleaned == ReadingCorrections[full_text][1]
        corrected == ReadingCorrections[full_text][2]
        looped == CandidateLoop(ReadingCorrections[full_text][3],
                                RecordCorrected(all, corrected, name),
                                << >>, name)
    IN  << looped[1], ValidateTexts(looped[2], cleaned, corrected) >>

\* what image_to_data returns: it raises, or words with their confidences
NoWords == [kind |-> "words", words |-> << >>]

SureWord == [kind |-> "words", words |-> << << << " " >>, 95 >>, << Text1852PHD, 95 >> >>]

FaintWord == [kind |-> "words", words |-> << << Text1852PHD, 10 >> >>]

DataRaises == [kind |-> "raised", words |-> << >>]

DataOutcomes == { NoWords, SureWord, FaintWord, DataRaises }

\* what the remote read does: it raises, the operation fails or times out,
\* or it succeeds with lines
LinePlate == << << "a", "b", "c", "-", "1", "2", "3", "4" >>, 90 >>

LineFaintPlate == << Text1852PHD, 30 >>

LineSign == << << "C", "O", "N", "D", "O", "M", "I", "N", "I", "O", " ", "1", "2" >>, 95 >>

LineDash == << << " ", "-", " " >>, 95 >>

CloudRemotes ==
    { [kind |-> k, lines |-> << >>] : k \in { "raised", "failed", "timeout" } }
    \cup { [kind |-> "lines", lines |-> l] :
             l \in { << >>, << LinePlate >>, << LineSign >>, << LineDash >>,
                     << LineSign, LineFaintPlate >>, << LineFaintPlate, LinePlate >> } }

Init ==
    /\ pc = "cloud"
    /\ image \in { "ok", "unreadable" }
    /\ azure_cv \in BOOLEAN
    /\ tesseract \in BOOLEAN
    /\ available \in (IF tesseract THEN BOOLEAN ELSE { FALSE })
    /\ cloud = "pending"
    /\ cloud_result = << None, 0 >>
    /\ trace = << "TRY_CLOUD_PROVIDER" >>
    /\ outcome = "pending"
    /\ result = << None, 0 >>
    /\ LocalFresh
    /\ ValidIdle
    /\ CorrIdle
    /\ PreIdle
    /\ TareaIdle
    /\ PollIdle

\* a plausible slip: _get_azure_cv called outside the try block, so that its
\* exception ends the call
CloudInitFails_Propagates ==
    /\ pc = "cloud"
    /\ ~azure_cv
    /\ cloud' = "init_failed"
    /\ pc' = "done"
    /\ outcome' = "error"
    /\ trace' = Append(trace, "ERROR")
    /\ UNCHANGED << pollVars, preVars, tareaVars, image, azure_cv, tesseract, available, cloud_result,
                    result, localVars, validVars, corrVars >>

\* _get_azure_cv raises (the credentials are not configured); read_plate
\* catches it at line 208 and goes on to Tesseract
CloudInitFails ==
    /\ pc = "cloud"
    /\ ~azure_cv
    /\ cloud' = "init_failed"
    /\ pc' = "local"
    /\ trace' = Append(trace, "TRY_LOCAL_MULTIPASS")
    /\ UNCHANGED << pollVars, preVars, tareaVars, image, azure_cv, tesseract, available, cloud_result,
                    outcome, result, localVars, validVars, corrVars >>

\* lines 199-206: the cloud service answers; a plate text is returned at
\* once, anything else goes on to Tesseract
CloudReadPlate(remote) ==
    /\ pc = "cloud"
    /\ image = "unreadable" => remote.kind = "raised"
    /\ azure_cv' = TRUE
    /\ cloud_result' = AzureReadPlate(remote)
    /\ LET r == AzureReadPlate(remote)
       IN  IF Truthy(r[1])
           THEN /\ result' = r
                /\ cloud' = "text"
                /\ outcome' = "cloud"
                /\ pc' = "done"
                /\ trace' = Append(trace, "DONE")
           ELSE /\ cloud' = (IF remote.kind = "raised" THEN "raised" ELSE "no_text")
                /\ pc' = "local"
                /\ trace' = Append(trace, "TRY_LOCAL_MULTIPASS")
                /\ UNCHANGED << outcome, result >>
    /\ UNCHANGED << pollVars, preVars, tareaVars, image, tesseract, available, localVars, validVars, corrVars >>

\* the call ends with << None, 0.0 >> outside the chain's FAIL state
LocalError(how) ==
    /\ result' = << None, 0 >>
    /\ outcome' = how
    /\ pc' = "done"
    /\ trace' = Append(trace, "ERROR")

\* _get_tesseract raises; read_plate catches it at line 223
LocalInitFails ==
    /\ pc = "local"
    /\ ~tesseract
    /\ LocalError("init_error")
    /\ UNCHANGED << pollVars, preVars, tareaVars, image, azure_cv, tesseract, available, cloud,
                    cloud_result, localVars, validVars, corrVars >>

\* lines 489-528 of TesseractOCRService.read_plate: the service is there (or
\* is constructed now); it is unavailable, the image cannot be read, or the
\* strategies are built
LocalBegin ==
    /\ pc = "local"
    /\ tesseract' = TRUE
    /\ available' \in (IF tesseract THEN { available } ELSE BOOLEAN)
    /\ IF ~available' THEN LocalError("unavailable")
       ELSE IF image = "unreadable" THEN LocalError("error")
       ELSE /\ pc' = "passes"
            /\ UNCHANGED << trace, outcome, result >>
    /\ UNCHANGED << pollVars, preVars, tareaVars, image, azure_cv, cloud, cloud_result, localVars, validVars,
                    corrVars >>

\* the strategy the next pass runs
NextStrategy == Strategies(TRUE)[Len(executed) + 1]

\* a plausible slip: the loop stops at the first pass that found a plate
PassesLeft_UntilFound ==
    pc = "passes" /\ Len(executed) < Len(Strategies(TRUE)) /\ ~Truthy(best_result)

\* the loop of line 538 has a strategy left to run
PassesLeft == pc = "passes" /\ Len(executed) < Len(Strategies(TRUE))

\* image_to_string raises: the pass is skipped (line 626)
PassRaises ==
    /\ PassesLeft
    /\ noisy < MaxNoisyPasses
    /\ noisy' = noisy + 1
    /\ executed' = Append(executed, NextStrategy)
    /\ raised' = Append(raised, NextStrategy)
    /\ UNCHANGED << pollVars, preVars, tareaVars, all_candidates, best_result, best_confidence,
                    any_valid, best_plates, callVars, validVars, corrVars >>

\* lines 542-624: one pass that reads full_text, and words when it has to
\* search the fragments
PassReads(full_text) ==
    /\ PassesLeft
    /\ full_text # EmptyReading => noisy < MaxNoisyPasses
    /\ LET texts == PassTexts(all_candidates, full_text, NextStrategy)
       IN  /\ executed' = Append(executed, NextStrategy)
           /\ all_candidates' = texts[1]
           /\ IF texts[2] # << >>
              THEN /\ noisy < MaxNoisyPasses
                   /\ noisy' = noisy + 1
                   /\ best_result' = UpdateBest(best_result, best_confidence, texts[2])[1]
                   /\ best_confidence' = UpdateBest(best_result, best_confidence, texts[2])[2]
                   /\ any_valid' = (any_valid \/ ValidPlates(texts[2]) # << >>)
                   /\ best_plates' = RecordBestPlate(best_plates, texts[2])
                   /\ UNCHANGED raised
              ELSE \E data \in DataOutcomes :
                   LET quiet == full_text = EmptyReading /\ data = NoWords
                       potential == FragmentLoop(data.words, << >>)
                   IN
                   /\ ~quiet => noisy < MaxNoisyPasses
                   /\ noisy' = (IF quiet THEN noisy ELSE noisy + 1)
                   /\ IF data.kind = "raised"
                      THEN /\ raised' = Append(raised, NextStrategy)
                           /\ UNCHANGED << best_result, best_confidence, any_valid,
                                           best_plates >>
                      ELSE /\ best_result' = UpdateBest(best_result, best_confidence, potential)[1]
                           /\ best_confidence' = UpdateBest(best_result, best_confidence, potential)[2]
                           /\ any_valid' = (any_valid \/ ValidPlates(potential) # << >>)
                           /\ best_plates' = RecordBestPlate(best_plates, potential)
                           /\ UNCHANGED raised
    /\ UNCHANGED << pollVars, preVars, tareaVars, callVars, validVars, corrVars >>

\* a plausible slip: forced correction is tried on the candidates before the
\* best result is looked at
PassesDone_ForcesFirst ==
    /\ pc = "passes"
    /\ ~PassesLeft
    /\ IF Truthy(best_result) /\ all_candidates = << >>
       THEN /\ result' = << best_result, best_confidence >>
            /\ outcome' = "valid"
            /\ pc' = "done"
            /\ trace' = Append(trace, "DONE")
       ELSE /\ pc' = "forced"
            /\ trace' = Append(trace, "TRY_FORCED_CORRECTION")
            /\ UNCHANGED << outcome, result >>
    /\ UNCHANGED << pollVars, preVars, tareaVars, image, azure_cv, tesseract, available, cloud,
                    cloud_result, localVars, validVars, corrVars >>

\* lines 630-635: every strategy was run; a best result is returned, or
\* forced correction is next
PassesDone ==
    /\ pc = "passes"
    /\ ~PassesLeft
    /\ IF Truthy(best_result)
       THEN /\ result' = << best_result, best_confidence >>
            /\ outcome' = "valid"
            /\ pc' = "done"
            /\ trace' = Append(trace, "DONE")
       ELSE /\ pc' = "forced"
            /\ trace' = Append(trace, "TRY_FORCED_CORRECTION")
            /\ UNCHANGED << outcome, result >>
    /\ UNCHANGED << pollVars, preVars, tareaVars, image, azure_cv, tesseract, available, cloud,
                    cloud_result, localVars, validVars, corrVars >>

\* lines 639-648: forced correction of the candidates of 6 to 8 characters
ForcedCorrection ==
    /\ pc = "forced"
    /\ IF Truthy(ForcedLoop(all_candidates))
       THEN /\ result' = << ForcedLoop(all_candidates), ForcedConfidence >>
            /\ outcome' = "forced"
            /\ pc' = "done"
            /\ trace' = Append(trace, "DONE")
       ELSE /\ pc' = "last"
            /\ UNCHANGED << trace, outcome, result >>
    /\ UNCHANGED << pollVars, preVars, tareaVars, image, azure_cv, tesseract, available, cloud,
                    cloud_result, localVars, validVars, corrVars >>

\* lines 650-661: the last attempt returns a 7-character candidate that
\* mixes digits and letters without validating it; otherwise None
LastAttempt ==
    /\ pc = "last"
    /\ IF LastAttemptLoop(all_candidates) # None
       THEN /\ result' = << LastAttemptLoop(all_candidates), UnvalidatedConfidence >>
            /\ outcome' = "unvalidated"
            /\ trace' = Append(trace, "DONE")
       ELSE /\ result' = << None, 0 >>
            /\ outcome' = "fail"
            /\ trace' = Append(trace, "FAIL")
    /\ pc' = "done"
    /\ UNCHANGED << pollVars, preVars, tareaVars, image, azure_cv, tesseract, available, cloud,
                    cloud_result, localVars, validVars, corrVars >>

Next ==
    \/ CloudInitFails
    \/ \E remote \in CloudRemotes : CloudReadPlate(remote)
    \/ LocalInitFails
    \/ LocalBegin
    \/ PassRaises
    \/ \E full_text \in Readings \cup { EmptyReading } : PassReads(full_text)
    \/ PassesDone
    \/ ForcedCorrection
    \/ LastAttempt

Spec == Init /\ [][Next]_vars

(***************************************************************************)
(* SpecPreprocess: one call of preprocess_plate_image.  Any OpenCV call    *)
(* may raise; whatever is raised inside the try block takes the call to    *)
(* the except block.                                                       *)
(***************************************************************************)
InitPreprocess ==
    /\ p_pc = "decode"
    /\ p_bytes \in PreBytes
    /\ p_strategy \in PreStrategies
    /\ p_aggressive \in BOOLEAN
    /\ p_img = NoImage
    /\ p_out = "pending"
    /\ ValidIdle
    /\ CorrIdle
    /\ CallIdle
    /\ TareaIdle
    /\ PollIdle

\* what every step leaves alone
PreFrame ==
    UNCHANGED << p_bytes, p_strategy, p_aggressive, validVars, corrVars,
                 localVars, callVars, tareaVars, pollVars >>

\* the try block is left for the except block
PreCaught == p_pc' = "except" /\ UNCHANGED << p_img, p_out >>

\* a return from the try block
PreReturns(img) == p_pc' = "done" /\ p_img' = img /\ p_out' = "returned"

\* np.frombuffer, cv2.imdecode(IMREAD_COLOR), and the ValueError for None
PreDecode ==
    /\ p_pc = "decode"
    /\ \E img \in imdecode(p_bytes, "IMREAD_COLOR") :
           IF img \in { Raises, NoImage }
           THEN PreCaught
           ELSE p_pc' = "resize" /\ p_img' = img /\ UNCHANGED p_out
    /\ PreFrame

\* 1. cv2.resize, when the scale factor is not 1.0
PreResize(fails) ==
    /\ p_pc = "resize"
    /\ IF fails /\ PreResizing(p_bytes) # << >>
       THEN PreCaught
       ELSE p_pc' = "gray" /\ p_img' = p_img \o PreResizing(p_bytes) /\ UNCHANGED p_out
    /\ PreFrame

\* 2. cv2.cvtColor(COLOR_BGR2GRAY)
PreGray(fails) ==
    /\ p_pc = "gray"
    /\ IF fails
       THEN PreCaught
       ELSE p_pc' = "strategy" /\ p_img' = Append(p_img, "COLOR_BGR2GRAY") /\ UNCHANGED p_out
    /\ PreFrame

\* the strategy's own transforms; 'otsu' returns here; 'plate_detect' crops
\* when _detect_and_crop_plate finds a plate, and that method never raises
PreStrategy(fails, found) ==
    /\ p_pc = "strategy"
    /\ CASE fails /\ PreStrategyTransforms(p_strategy) # << >> -> PreCaught
         [] ~fails /\ p_strategy = "otsu" ->
                PreReturns(p_img \o PreStrategyTransforms(p_strategy))
         [] OTHER ->
                /\ p_pc' = PreFilters(p_aggressive)[1]
                /\ p_img' = p_img \o PreStrategyTransforms(p_strategy)
                            \o (IF p_strategy = "plate_detect" /\ found
                                THEN << "crop" >> ELSE << >>)
                /\ UNCHANGED p_out
    /\ PreFrame

\* 3 to 7: the next filter, and the return after the last one
PreFilter(fails) ==
    /\ \E k \in 1..Len(PreFilters(p_aggressive)) :
           /\ p_pc = PreFilters(p_aggressive)[k]
           /\ CASE fails -> PreCaught
                [] ~fails /\ k = Len(PreFilters(p_aggressive)) ->
                       PreReturns(Append(p_img, p_pc))
                [] OTHER ->
                       /\ p_pc' = PreFilters(p_aggressive)[k + 1]
                       /\ p_img' = Append(p_img, p_pc)
                       /\ UNCHANGED p_out
    /\ PreFrame

\* the except block: np.frombuffer and cv2.imdecode(IMREAD_GRAYSCALE) again,
\* outside any try
PreExcept ==
    /\ p_pc = "except"
    /\ \E img \in imdecode(p_bytes, "IMREAD_GRAYSCALE") :
           /\ p_pc' = "done"
           /\ IF img = Raises
              THEN p_out' = "raised" /\ UNCHANGED p_img
              ELSE p_out' = "fallback" /\ p_img' = img
    /\ PreFrame

NextPreprocess ==
    \/ PreDecode
    \/ \E fails \in BOOLEAN : PreResize(fails)
    \/ \E fails \in BOOLEAN : PreGray(fails)
    \/ \E fails, found \in BOOLEAN : PreStrategy(fails, found)
    \/ \E fails \in BOOLEAN : PreFilter(fails)
    \/ PreExcept

SpecPreprocess == InitPreprocess /\ [][NextPreprocess]_vars

(***************************************************************************)
(* SpecTarea: the life of one TareaMantenimiento: created, then any of     *)
(* its methods called in any order while the days pass.  save() writes the *)
(* row; the signals it fires only create notifications.                    *)
(***************************************************************************)
\* how many method calls one task receives
MaxLlamadas == 3

\* the last day
MaxDia == 3

Personas == { "juan", "ana" }

Costos == { "None", "0.00", "150.50" }

Textos == { None, << >>, << "texto" >> }

InitTarea ==
    /\ \E fecha_limite \in 1..MaxDia, costo_real \in { "0.00", "80.00" },
          observaciones \in { << >>, << "nota" >> } :
           tarea = TareaNueva(fecha_limite, costo_real, observaciones)
    /\ antes = tarea
    /\ fila = tarea
    /\ llamada = Llamada("create", "None", "None", None, 1)
    /\ ret = TRUE
    /\ hoy = 1
    /\ llamadas = 0
    /\ ValidIdle
    /\ CorrIdle
    /\ CallIdle
    /\ PreIdle
    /\ PollIdle

\* what every call does around the method: one more call, made on the
\* instance as it was, with the clock and everything else left alone
Called(call) ==
    /\ llamadas < MaxLlamadas
    /\ llamadas' = llamadas + 1
    /\ llamada' = call
    /\ antes' = tarea
    /\ UNCHANGED << hoy, validVars, corrVars, localVars, callVars, preVars,
                    pollVars >>

CallAsignarA(personal) ==
    /\ tarea' = asignar_a(tarea, personal, hoy)
    /\ fila' = tarea'
    /\ ret' = TRUE
    /\ Called(Llamada("asignar_a", personal, "None", None, hoy))

CallIniciarTrabajo ==
    /\ tarea' = iniciar_trabajo(tarea, hoy)[1]
    /\ fila' = (IF iniciar_trabajo(tarea, hoy)[2] THEN tarea' ELSE fila)
    /\ ret' = iniciar_trabajo(tarea, hoy)[3]
    /\ Called(Llamada("iniciar_trabajo", "None", "None", None, hoy))

CallCompletar(costo_real, observaciones) ==
    /\ tarea' = completar(tarea, costo_real, observaciones, hoy)
    /\ fila' = tarea'
    /\ ret' = TRUE
    /\ Called(Llamada("completar", "None", costo_real, observaciones, hoy))

CallCancelar(motivo) ==
    /\ tarea' = cancelar(tarea, motivo)
    /\ fila' = tarea'
    /\ ret' = TRUE
    /\ Called(Llamada("cancelar", "None", "None", motivo, hoy))

\* timezone.now() moves on
DayPasses ==
    /\ hoy < MaxDia
    /\ hoy' = hoy + 1
    /\ UNCHANGED << tarea, antes, llamada, ret, fila, llamadas, validVars,
                    corrVars, localVars, callVars, preVars, pollVars >>

NextTarea ==
    \/ \E personal \in Personas : CallAsignarA(personal)
    \/ CallIniciarTrabajo
    \/ \E costo_real \in Costos, observaciones \in Textos :
           CallCompletar(costo_real, observaciones)
    \/ \E motivo \in Textos : CallCancelar(motivo)
    \/ DayPasses

SpecTarea == InitTarea /\ [][NextTarea]_vars

(***************************************************************************)
(* SpecPoll: AzureComputerVisionService.read_plate, from the submission of *)
(* the image to its return.  The process stands at a remote call           *)
(* (read_in_stream, get_read_result) or has returned; every remote call    *)
(* returns or raises.                                                      *)
(***************************************************************************)
max_attempts == 10

\* OperationStatusCodes of the read API
OperationStatusCodes == { "notStarted", "running", "failed", "succeeded" }

\* a plausible slip: a failed operation is polled again
PollOutcome_FailedSleeps(status) ==
    IF status = "succeeded" THEN "break" ELSE "sleep"

\* lines 162-169: what one iteration does with result.status
PollOutcome(status) ==
    IF status = "succeeded" THEN "break"
    ELSE IF status = "failed" THEN "return"
    ELSE "sleep"

\* what a succeeded operation holds: no analyze_result or read_results, or
\* the lines of its pages
PollResults ==
    { [kind |-> "empty", lines |-> << >>] }
    \cup { [kind |-> "lines", lines |-> l] :
             l \in { << >>, << LinePlate >>, << LineSign, LineFaintPlate >> } }

InitPoll ==
    /\ poll_pc = "submit"
    /\ polls = 0
    /\ statuses = << >>
    /\ sleeps = 0
    /\ poll_out = NotReturned
    /\ ValidIdle
    /\ CorrIdle
    /\ CallIdle
    /\ PreIdle
    /\ TareaIdle

\* what every step leaves alone
PollFrame ==
    UNCHANGED << validVars, corrVars, localVars, callVars, preVars, tareaVars >>

\* return None, 0.0
PollReturnsNone == poll_pc' = "done" /\ poll_out' = << None, 0 >>

\* lines 136-154: the image is read and preprocessed, read_in_stream is
\* called and the operation id taken from its headers; an exception of any
\* of these is caught at line 221
PollSubmit(raises) ==
    /\ poll_pc = "submit"
    /\ IF raises THEN PollReturnsNone
       ELSE poll_pc' = "poll" /\ UNCHANGED poll_out
    /\ UNCHANGED << polls, statuses, sleeps >>
    /\ PollFrame

\* lines 159-172: one iteration of the loop whose get_read_result returns;
\* the tenth iteration that sleeps leaves the loop for its else clause
PollGet(status) ==
    /\ poll_pc = "poll"
    /\ polls < max_attempts
    /\ polls' = polls + 1
    /\ statuses' = Append(statuses, status)
    /\ IF PollOutcome(status) = "break"
       THEN poll_pc' = "analyze" /\ UNCHANGED << sleeps, poll_out >>
       ELSE IF PollOutcome(status) = "return"
       THEN PollReturnsNone /\ UNCHANGED sleeps
       ELSE /\ sleeps' = sleeps + 1
            /\ IF polls' = max_attempts THEN PollReturnsNone
               ELSE poll_pc' = "poll" /\ UNCHANGED poll_out
    /\ PollFrame

\* get_read_result raises; caught at line 221
PollGetRaises ==
    /\ poll_pc = "poll"
    /\ polls < max_attempts
    /\ polls' = polls + 1
    /\ PollReturnsNone
    /\ UNCHANGED << statuses, sleeps >>
    /\ PollFrame

\* lines 175-219: the result of the succeeded operation is read
PollAnalyze(res) ==
    /\ poll_pc = "analyze"
    /\ poll_pc' = "done"
    /\ poll_out' = (IF res.kind = "empty" THEN << None, 0 >>
                    ELSE AzureFromLines(res.lines))
    /\ UNCHANGED << polls, statuses, sleeps >>
    /\ PollFrame

NextPoll ==
    \/ \E raises \in BOOLEAN : PollSubmit(raises)
    \/ \E status \in OperationStatusCodes : PollGet(status)
    \/ PollGetRaises
    \/ \E res \in PollResults : PollAnalyze(res)

\* every remote call and every sleep returns, so a call that has not
\* returned takes its next step
SpecPoll == InitPoll /\ [][NextPoll]_vars /\ WF_vars(NextPoll)

(***************************************************************************)
(* Claims about the validator (SpecValid).                                 *)
(***************************************************************************)
OutsideLength(text) == Len(text) < min_length \/ Len(text) > max_length

\* C6, as stated: is_valid_plate is true when the string matches one of the
\* region's patterns, and false when the string's length is outside
\* [min_length, max_length] or the string matches none of the patterns.
C6_AsStated ==
    v_pc = "done" =>
        /\ MatchesAnyPattern(v_text) => v_result
        /\ (OutsideLength(v_text) \/ ~MatchesAnyPattern(v_text)) => ~v_result

\* C6, amended: is_valid_plate is true when the string, trimmed, upper-cased
\* and with its spaces and hyphens removed, matches one of the region's
\* patterns (in particular when the string itself matches one), and false
\* when that normalised string's length is outside [min_length, max_length]
\* or it matches none of the patterns.
C6_Normalised ==
    v_pc = "done" =>
        /\ MatchesAnyPattern(v_text) => v_result
        /\ MatchesAnyPattern(NormalizePlate(v_text)) => v_result
        /\ (OutsideLength(NormalizePlate(v_text))
              \/ ~MatchesAnyPattern(NormalizePlate(v_text))) => ~v_result

\* C6 witness: a string that is accepted only through the normalisation
C6_Witness ==
    /\ v_pc = "done"
    /\ v_result
    /\ ~MatchesAnyPattern(v_text)
    /\ OutsideLength(v_text)

(***************************************************************************)
(* Claims about the corrector (SpecCorrect).                               *)
(***************************************************************************)
\* the texts of the candidates the smart correction returned
CandidateTexts == { c_cands[k][1] : k \in 1..Len(c_cands) }

\* C7, as stated: on a valid regional plate the corrector, applied once or
\* twice, returns that same string unchanged.
C7_IdempotentOnValid ==
    (c_pc \in { "once", "twice" } /\ is_valid_plate(c_text)) =>
        /\ c_fixed = c_text
        /\ c_cands = << << c_text, 0 >> >>

\* the letters the digit positions are corrected from
DigitConfusion == { "O", "I", "L", "S", "B", "Z", "G", "T", "F", "A" }

\* a 7-character text, letters last, digits or confused letters first
C8_Shape(t) ==
    /\ Len(t) = 7
    /\ \A i \in 1..4 : t[i] \in DigitChars \cup DigitConfusion
    /\ \A i \in 5..7 : t[i] \in UpperChars

\* the fix output or a smart candidate has every confused letter of the
\* first four replaced by its digit, and is a valid plate
C8_Yields(t) ==
    \E cand \in { c_fixed } \cup CandidateTexts :
        /\ Len(cand) = 7
        /\ SubSeq(cand, 1, 4) = ForceToDigitStr(SubSeq(t, 1, 4))
        /\ is_valid_plate(cand)

\* C8, as stated: for "12B4ABC", and for every 7-character text of 4 digits
\* or confused letters followed by 3 letters, the corrector yields a valid
\* candidate with each confused letter replaced by its digit.
C8_AsStated ==
    c_pc = "once" =>
        /\ c_text = Text12B4ABC => Text1284ABC \in CandidateTexts
        /\ C8_Shape(c_text) => C8_Yields(c_text)

\* C8, amended: the same, provided at least two of the first four characters
\* are digits, "A" occurs only in the first position and the third and
\* fourth characters are not both "B".
C8_Amended ==
    c_pc = "once" =>
        /\ c_text = Text12B4ABC =>
              /\ Text1284ABC \in CandidateTexts
              /\ is_valid_plate(Text1284ABC)
        /\ ( /\ C8_Shape(c_text)
             /\ CountDigits(SubSeq(c_text, 1, 4)) >= 2
             /\ \A i \in 2..4 : c_text[i] # "A"
             /\ ~(c_text[3] = "B" /\ c_text[4] = "B") ) => C8_Yields(c_text)

\* C8 witness: "12B4ABC" corrected to "1284ABC" with score 100
C8_Witness ==
    /\ c_pc = "once"
    /\ c_text = Text12B4ABC
    /\ c_cands[1] = << Text1284ABC, 100 >>

\* C17: when the cleaned text of a pass is already a valid plate, the plate
\* the pass selects is that same text.
C17_ValidReadingKept ==
    c_pc # "input" /\ is_valid_plate(c_text) => c_plate = c_text

\* the character a table of << read, meant >> pairs makes of c
Mapped(pairs, c) ==
    IF \E q \in pairs : q[1] = c
    THEN (CHOOSE q \in pairs : q[1] = c)[2]
    ELSE c

LetterToDigit ==
    { << "O", "0" >>, << "I", "1" >>, << "L", "1" >>, << "S", "5" >>,
      << "Z", "2" >>, << "G", "6" >> }

DigitToLetter ==
    { << "0", "O" >>, << "1", "I" >>, << "8", "B" >>, << "5", "S" >> }

\* the split _fix_common_ocr_errors takes for a seven-character text
DigitFirstSplit(text) == Len(text) = 7 /\ CountDigits(SubSeq(text, 1, 4)) >= 2

LetterFirstSplit(text) ==
    Len(text) = 7 /\ ~DigitFirstSplit(text) /\ CountDigits(SubSeq(text, 4, 7)) >= 2

\* C18 as stated, where the statement is definite: in either split a digit
\* position turns O, I, L, S, Z, G, T, F into 0, 1, 1, 5, 2, 6, 7, 1 and a
\* letter position turns 0, 1, 8, 5, 6, 2, 7, 4 into O, I, B, S, G, Z, T, A;
\* in the digit-first split B becomes 8 at the two leading positions, A
\* becomes 4 at position 0 and a trailing U becomes D; nothing else changes.
\* (B and A at the digit positions of the letter-first split are left open.)
C18_AsStated ==
    c_pc = "once" /\ (DigitFirstSplit(c_text) \/ LetterFirstSplit(c_text)) =>
        \A i \in 1..7 :
            LET c == c_text[i]
                digits == LetterToDigit \cup { << "T", "7" >>, << "F", "1" >> }
                letters == DigitToLetter \cup { << "6", "G" >>, << "2", "Z" >>,
                                                << "7", "T" >>, << "4", "A" >> }
            IN  IF DigitFirstSplit(c_text)
                THEN c_fixed[i] =
                       (CASE i <= 4 /\ c = "B" -> IF i <= 2 THEN "8" ELSE "B"
                          [] i <= 4 /\ c = "A" -> IF i = 1 THEN "4" ELSE "A"
                          [] i <= 4 /\ c \notin { "A", "B" } -> Mapped(digits, c)
                          [] i = 7 /\ c = "U" -> "D"
                          [] OTHER -> Mapped(letters, c))
                ELSE IF i <= 3 THEN c_fixed[i] = Mapped(letters, c)
                     ELSE c \notin { "A", "B" } => c_fixed[i] = Mapped(digits, c)

\* C18 as the code has it: the digit-first split (two or more digits among
\* the first four characters) corrects as stated except that 4 is not
\* turned into A; the letter-first split (otherwise, two or more digits
\* among the last four) turns only 0, 1, 8, 5 into O, I, B, S at its letter
\* positions and only O, I, L, S, B, Z, G into 0, 1, 1, 5, 8, 2, 6 at its
\* digit positions, B at any of them; any other text is left as it is.
C18_Amended ==
    c_pc = "once" =>
        IF DigitFirstSplit(c_text)
        THEN \A i \in 1..7 :
               c_fixed[i] =
                 (CASE i <= 4 /\ c_text[i] = "B" -> IF i <= 2 THEN "8" ELSE "B"
                    [] i <= 4 /\ c_text[i] = "A" -> IF i = 1 THEN "4" ELSE "A"
                    [] i <= 4 /\ c_text[i] \notin { "A", "B" } ->
                         Mapped(LetterToDigit \cup { << "T", "7" >>, << "F", "1" >> },
                                c_text[i])
                    [] i = 7 /\ c_text[i] = "U" -> "D"
                    [] OTHER ->
                         Mapped(DigitToLetter \cup { << "6", "G" >>, << "2", "Z" >>,
                                                     << "7", "T" >> }, c_text[i]))
        ELSE IF LetterFirstSplit(c_text)
        THEN \A i \in 1..7 :
               c_fixed[i] = (IF i <= 3
                             THEN Mapped(DigitToLetter, c_text[i])
                             ELSE Mapped(LetterToDigit \cup { << "B", "8" >> }, c_text[i]))
        ELSE c_fixed = c_text

\* C18: a letter-first text whose T, at a digit position, was left alone
\* while its letter positions were corrected
C18_Witness ==
    /\ c_pc = "once"
    /\ LetterFirstSplit(c_text)
    /\ \E i \in 4..7 : c_text[i] = "T" /\ c_fixed[i] = "T"
    /\ \E i \in 4..7 : c_text[i] = "B" /\ c_fixed[i] = "8"

\* the two readings of a seven-character text by the confusion tables
DigitFirstReading(text) ==
    ForceDigitStr(SubSeq(Upper(text), 1, 4)) \o ForceLetterStr(SubSeq(Upper(text), 5, 7))

LetterFirstReading(text) ==
    ForceLetterStr(SubSeq(Upper(text), 1, 3)) \o ForceDigitStr(SubSeq(Upper(text), 4, 7))

\* C19: for a candidate of 6 to 8 characters the forced correction is the
\* digit-first reading when that is 4 digits + 3 letters, else the
\* letter-first reading when that is 3 letters + 4 digits, else null (always
\* null for 6 and 8 characters, which neither shape fits); every non-null
\* result passes is_valid_plate.
C19_ForcedCorrection ==
    c_pc # "input" /\ Len(c_text) >= 6 /\ Len(c_text) <= 8 =>
        /\ c_forced =
               (CASE Len(c_text) = 7
                       /\ MatchesPattern(DigitFirstReading(c_text), BOLIVIA_PATTERNS[2]) ->
                         DigitFirstReading(c_text)
                  [] Len(c_text) = 7
                       /\ ~MatchesPattern(DigitFirstReading(c_text), BOLIVIA_PATTERNS[2])
                       /\ MatchesPattern(LetterFirstReading(c_text), BOLIVIA_PATTERNS[1]) ->
                         LetterFirstReading(c_text)
                  [] OTHER -> None)
        /\ c_forced # None => is_valid_plate(c_forced)

\* C19: a text that both readings make valid was forced to the digit-first one
C19_Witness ==
    /\ c_pc # "input"
    /\ is_valid_plate(DigitFirstReading(c_text))
    /\ is_valid_plate(LetterFirstReading(c_text))
    /\ c_forced = DigitFirstReading(c_text)
    /\ c_forced # c_text

\* C20: _apply_smart_corrections returns one to three candidates; one with a
\* positive score (90 or 100) differs from the input and passes
\* is_valid_plate; when there is none, the list is the input with score 0.
C20_SmartCandidates ==
    c_pc = "once" =>
        /\ Len(c_cands) \in 1..3
        /\ \A k \in 1..Len(c_cands) :
               /\ c_cands[k][2] \in { 0, 90, 100 }
               /\ c_cands[k][2] > 0 =>
                      c_cands[k][1] # c_fixed /\ is_valid_plate(c_cands[k][1])
        /\ (\A k \in 1..Len(c_cands) : c_cands[k][2] = 0) =>
               c_cands = << << c_fixed, 0 >> >>

\* C20: two corrected candidates were returned, both scored and valid
C20_Witness ==
    /\ c_pc = "once"
    /\ Len(c_cands) >= 2
    /\ \A k \in 1..Len(c_cands) : c_cands[k][2] > 0

\* C23: _fix_common_ocr_errors applied to its own output returns that output
\* unchanged, also when the first application changed the split the digit
\* counts select.
C23_FixIdempotent == c_pc = "refixed" => c_refixed = c_fixed

(***************************************************************************)
(* Claims about one recognition call (Spec).                               *)
(***************************************************************************)
\* the ways the local pipeline ends a call
LocalOutcomes ==
    { "valid", "forced", "unvalidated", "fail", "unavailable", "init_error", "error" }

\* the orchestrator went on to the local pipeline
LocalAttempted == InSeq("TRY_LOCAL_MULTIPASS", trace)

\* the cloud service returned a non-empty plate text
CloudGaveText == cloud_result[1] # None /\ cloud_result[1] # << >>

\* C1: read_plate never raises to its caller: whatever the cloud provider
\* does (initialisation failure, exception, no result, text) and whatever the
\* local OCR does (unavailable, exception, no text, text), every step of the
\* call has a continuation until it returns a pair (plate text or null, confidence) with the
\* confidence in [0.0, 1.0], and the confidence is 0.0 when the text is null.
C1_AlwaysReturnsPair ==
    /\ pc \in { "cloud", "local", "passes", "forced", "last", "done" }
    /\ pc = "cloud" =>
          ENABLED (CloudInitFails \/ \E remote \in CloudRemotes : CloudReadPlate(remote))
    /\ pc = "local" => ENABLED (LocalInitFails \/ LocalBegin)
    /\ pc = "passes" => ENABLED (PassesDone \/ PassReads(EmptyReading))
    /\ pc = "last" => ENABLED LastAttempt
    /\ pc = "done" =>
          /\ outcome \in { "cloud" } \cup LocalOutcomes
          /\ result[2] \in 0..100
          /\ result[1] = None => result[2] = 0

\* C1 witness: the cloud call raised, a local pass raised, and the call
\* still returned (null, 0.0)
C1_Witness ==
    /\ pc = "done"
    /\ cloud = "raised"
    /\ raised # << >>
    /\ outcome = "fail"
    /\ result = << None, 0 >>

\* C2: whenever the cloud provider returns a non-empty plate text the call
\* returns exactly that cloud result and the local pipeline is never
\* invoked; a local result is returned only when the cloud step failed or
\* returned no text, and then the local pipeline is what answers.
C2_CloudPrecedence ==
    /\ CloudGaveText =>
          /\ pc = "done"
          /\ outcome = "cloud"
          /\ result = cloud_result
          /\ ~LocalAttempted
          /\ executed = << >>
          /\ all_candidates = << >>
    /\ (pc = "done" /\ outcome \in LocalOutcomes) =>
          /\ ~CloudGaveText
          /\ cloud \in { "init_failed", "raised", "no_text" }
          /\ LocalAttempted
    /\ (pc = "done" /\ ~CloudGaveText) => outcome \in LocalOutcomes

\* C2 witness: the cloud text is returned although the local engine was
\* loaded and available
C2_Witness ==
    /\ pc = "done"
    /\ tesseract
    /\ available
    /\ cloud_result = << << "A", "B", "C", "1", "2", "3", "4" >>, 90 >>
    /\ result = cloud_result
    /\ executed = << >>

\* what the local pipeline returns, by the way it ended
LocalResult ==
    CASE outcome = "valid" -> << best_result, best_confidence >>
      [] outcome = "forced" -> << ForcedLoop(all_candidates), ForcedConfidence >>
      [] outcome = "unvalidated" ->
            << LastAttemptLoop(all_candidates), UnvalidatedConfidence >>
      [] OTHER -> << None, 0 >>

\* C3: if the cloud provider call throws, or the cloud service cannot be
\* initialised, the error is not propagated: the local pipeline is attempted
\* and the call returns the local pipeline's result.
C3_CloudThrowFallsBack ==
    cloud \in { "init_failed", "raised" } =>
        /\ LocalAttempted
        /\ pc = "done" =>
              /\ outcome \in LocalOutcomes
              /\ result = LocalResult

\* C3 witness: the cloud service could not be initialised and the local
\* pipeline's plate was returned
C3_Witness ==
    /\ pc = "done"
    /\ cloud = "init_failed"
    /\ outcome = "valid"
    /\ result = << Text1284ABC, min_confidence >>

\* a candidate of 7 characters with at least one digit and one letter
SevenMixed(text) ==
    Len(text) = 7 /\ CountDigits(text) > 0 /\ CountLetters(text) > 0

\* every pass was run, no text of any pass validated, as read or corrected,
\* and no candidate validates after forced correction
C4_NoLocalMatch ==
    /\ pc = "done"
    /\ executed = Strategies(TRUE)
    /\ ~any_valid
    /\ \A k \in 1..Len(all_candidates) :
          /\ ~is_valid_plate(all_candidates[k][1])
          /\ force_bolivian_format(all_candidates[k][1]) # None =>
                ~is_valid_plate(force_bolivian_format(all_candidates[k][1]))

\* the cloud provider returned a text that matches no pattern
C4_NoCloudMatch == CloudGaveText /\ ~is_valid_plate(cloud_result[1])

ChainPaths ==
    LET full == { << "TRY_CLOUD_PROVIDER", "DONE" >>,
                  << "TRY_CLOUD_PROVIDER", "TRY_LOCAL_MULTIPASS", "DONE" >>,
                  << "TRY_CLOUD_PROVIDER", "TRY_LOCAL_MULTIPASS", "ERROR" >>,
                  << "TRY_CLOUD_PROVIDER", "TRY_LOCAL_MULTIPASS",
                     "TRY_FORCED_CORRECTION", "DONE" >>,
                  << "TRY_CLOUD_PROVIDER", "TRY_LOCAL_MULTIPASS",
                     "TRY_FORCED_CORRECTION", "FAIL" >> }
    IN  UNION { { SubSeq(path, 1, n) : n \in 1..Len(path) } : path \in full }

\* C5: recognition follows the order TRY_CLOUD_PROVIDER, TRY_LOCAL_MULTIPASS,
\* TRY_FORCED_CORRECTION, FAIL: forced correction is attempted only after all
\* local passes have run and none produced a valid candidate; when a pass
\* produced a valid candidate the result is that normally validated
\* candidate and forced correction is never run; FAIL is reached only after
\* forced correction found no match.
C5_StateOrder ==
    /\ trace \in ChainPaths
    /\ InSeq("TRY_FORCED_CORRECTION", trace) =>
          /\ executed = Strategies(TRUE)
          /\ ~any_valid
    /\ (pc = "done" /\ any_valid) =>
          /\ outcome = "valid"
          /\ result = << best_result, min_confidence >>
          /\ is_valid_plate(result[1])
          /\ ~InSeq("TRY_FORCED_CORRECTION", trace)
    /\ InSeq("FAIL", trace) =>
          /\ InSeq("TRY_FORCED_CORRECTION", trace)
          /\ ForcedLoop(all_candidates) = None
          /\ result = << None, 0 >>

\* C5 witness: a text was read, every pass ran, forced correction found no
\* match and the chain ended in FAIL
C5_Witness ==
    /\ pc = "done"
    /\ all_candidates # << >>
    /\ trace = << "TRY_CLOUD_PROVIDER", "TRY_LOCAL_MULTIPASS",
                  "TRY_FORCED_CORRECTION", "FAIL" >>

\* C9: a plate accepted only through forced correction is returned with a
\* confidence in [0.5, 0.65], strictly lower than the confidence of every
\* normally validated match.
C9_ForcedConfidenceLower ==
    pc = "done" =>
        /\ outcome = "forced" =>
              /\ ~any_valid
              /\ is_valid_plate(result[1])
              /\ 50 <= result[2]
              /\ result[2] <= 65
              /\ result[2] < min_confidence
        /\ outcome = "valid" => result[2] > 65

\* C9 witness: "IB5ZPHD" was read and forced into "1852PHD"
C9_Witness ==
    /\ pc = "done"
    /\ outcome = "forced"
    /\ all_candidates # << >>
    /\ all_candidates[1][1] = << "I", "B", "5", "Z", "P", "H", "D" >>
    /\ result[1] = Text1852PHD

\* the eight passes of the claim, by their strategy names
EightPasses ==
    << "preprocesada + PSM 7", "preprocesada + PSM 8", "preprocesada + PSM 6",
       "agresiva + PSM 7", "agresiva + PSM 8", "otsu + PSM 7",
       "original + PSM 7", "original + PSM 8" >>

\* the local pipeline went through its pass loop
PassLoopOver ==
    \/ pc \in { "forced", "last" }
    \/ pc = "done" /\ outcome \in { "valid", "forced", "unvalidated", "fail" }

\* C10: with preprocessing the local runner executes the eight passes in the
\* fixed order normal+PSM7, normal+PSM8, normal+PSM6, aggressive+PSM7,
\* aggressive+PSM8, otsu+PSM7, original+PSM7, original+PSM8, every one of
\* them even after an earlier pass produced a valid plate; a pass that raises
\* is skipped without retry and does not stop the remaining passes.
C10_EightPassesInOrder ==
    /\ executed = SubSeq(EightPasses, 1, Len(executed))
    /\ PassLoopOver => executed = EightPasses
    /\ \A k \in 1..Len(raised) :
          /\ InSeq(raised[k], executed)
          /\ \A j \in 1..Len(raised) : raised[j] = raised[k] => j = k

\* C10 witness: the first pass read a valid plate, the second raised, and
\* all eight passes were run
C10_Witness ==
    /\ pc = "done"
    /\ outcome = "valid"
    /\ all_candidates # << >>
    /\ all_candidates[1][2] = "preprocesada + PSM 7"
    /\ raised = << "preprocesada + PSM 8" >>
    /\ executed = EightPasses


C21_LongestEarliest ==
    pc = "done" /\ best_plates # << >> =>
        /\ outcome = "valid"
        /\ is_valid_plate(result[1])
        /\ result[2] = min_confidence
        /\ \E k \in 1..Len(best_plates) :
               /\ result[1] = best_plates[k]
               /\ \A j \in 1..Len(best_plates) : Len(best_plates[j]) <= Len(best_plates[k])
               /\ \A j \in 1..(k - 1) : Len(best_plates[j]) < Len(best_plates[k])

\* C21: two passes had different seven-character plates, and the plate of
\* the earlier one came back
C21_Witness ==
    /\ pc = "done"
    /\ Len(best_plates) = 2
    /\ Len(best_plates[1]) = 7
    /\ Len(best_plates[2]) = 7
    /\ best_plates[1] # best_plates[2]
    /\ result[1] = best_plates[1]

(***************************************************************************)
(* Claims about preprocess_plate_image (SpecPreprocess).                   *)
(***************************************************************************)
\* C11: preprocess_plate_image never raises to its caller for any input
\* bytes; when a step of the try block fails, what it returns is the plain
\* grayscale decoding of the bytes.
C11_NeverRaises ==
    /\ p_out # "raised"
    /\ p_out = "fallback" => p_img \in imdecode(p_bytes, "IMREAD_GRAYSCALE")

(***************************************************************************)
(* Claims about TareaMantenimiento (SpecTarea).                            *)
(***************************************************************************)
\* the fields a method did not name are as they were
Untouched(fields) == \A f \in DOMAIN tarea \ fields : tarea[f] = antes[f]

\* C12: iniciar_trabajo returns True exactly when the task was pendiente or
\* asignada, and then the task is en_progreso with fecha_inicio set to now;
\* otherwise it returns False and changes no field, nor the saved row.
C12_IniciarTrabajo ==
    llamada.metodo = "iniciar_trabajo" =>
        /\ ret = (antes.estado \in { "pendiente", "asignada" })
        /\ ret => /\ tarea.estado = "en_progreso"
                  /\ tarea.fecha_inicio = llamada.dia
                  /\ Untouched({ "estado", "fecha_inicio" })
                  /\ fila = tarea
        /\ ~ret => tarea = antes /\ fila = antes

\* C12: iniciar_trabajo was refused on a task already in progress
C12_Witness ==
    /\ llamada.metodo = "iniciar_trabajo"
    /\ ~ret
    /\ antes.estado = "en_progreso"
    /\ antes.fecha_inicio < hoy

\* C13: asignar_a always returns True, sets personal_asignado and
\* fecha_asignacion, moves a pendiente task to asignada and leaves any
\* other estado as it was.
C13_AsignarA ==
    llamada.metodo = "asignar_a" =>
        /\ ret
        /\ tarea.personal_asignado = llamada.personal
        /\ tarea.fecha_asignacion = llamada.dia
        /\ tarea.estado = (IF antes.estado = "pendiente" THEN "asignada" ELSE antes.estado)
        /\ Untouched({ "personal_asignado", "fecha_asignacion", "estado" })
        /\ fila = tarea

\* C13: a task in progress was given to somebody else and stayed in progress
C13_Witness ==
    /\ llamada.metodo = "asignar_a"
    /\ antes.estado = "en_progreso"
    /\ antes.personal_asignado = "juan"
    /\ tarea.personal_asignado = "ana"
    /\ tarea.estado = "en_progreso"

\* the task was assigned and started when the call was made
AssignedAndStarted ==
    antes.estado = "en_progreso" /\ antes.personal_asignado # "None"

\* C14: completar on an assigned and started task returns True, leaves the
\* estado completada and fecha_completado set, and stores the costo_real
\* given; when none is given the stored costo_real is unchanged.
C14_Completar ==
    llamada.metodo = "completar" /\ AssignedAndStarted =>
        /\ ret
        /\ tarea.estado = "completada"
        /\ tarea.fecha_completado = llamada.dia
        /\ tarea.costo_real = (IF llamada.costo_real # "None"
                               THEN llamada.costo_real
                               ELSE antes.costo_real)
        /\ fila = tarea

\* C14: an assigned, started task with a stored cost was completed without
\* a cost
C14_Witness ==
    /\ llamada.metodo = "completar"
    /\ AssignedAndStarted
    /\ llamada.costo_real = "None"
    /\ tarea.costo_real = "80.00"
    /\ tarea.estado = "completada"

\* C15: cancelar returns True and leaves the estado cancelada; when a motivo
\* is given the observations become 'CANCELADA: <motivo>', a line break and
\* the previous observations; when none is given they are unchanged.
C15_Cancelar ==
    llamada.metodo = "cancelar" =>
        /\ ret
        /\ tarea.estado = "cancelada"
        /\ tarea.observaciones =
               (IF llamada.texto \in { None, << >> }
                THEN antes.observaciones
                ELSE << "CANCELADA: " >> \o llamada.texto \o << "\n" >>
                     \o antes.observaciones)
        /\ Untouched({ "estado", "observaciones" })
        /\ fila = tarea

\* C15: a task with observations was cancelled with a motivo
C15_Witness ==
    /\ llamada.metodo = "cancelar"
    /\ antes.observaciones = << "nota" >>
    /\ tarea.observaciones = << "CANCELADA: ", "texto", "\n", "nota" >>

\* C16: esta_vencida is true exactly when the estado is neither completada
\* nor cancelada and today is after fecha_limite; a task just created with a
\* fecha_limite in the future is pendiente and not overdue.
C16_EstaVencida ==
    /\ esta_vencida(tarea, hoy) =
           (tarea.estado \notin { "completada", "cancelada" } /\ hoy > tarea.fecha_limite)
    /\ llamada.metodo = "create" /\ tarea.fecha_limite > llamada.dia /\ hoy = llamada.dia =>
           tarea.estado = "pendiente" /\ ~esta_vencida(tarea, hoy)

\* C16: an overdue task in progress
C16_Witness ==
    /\ esta_vencida(tarea, hoy)
    /\ tarea.estado = "en_progreso"
    /\ hoy = tarea.fecha_limite + 1

\* C25: completada and cancelada are terminal: a call of asignar_a,
\* iniciar_trabajo, completar or cancelar on a task in one of them leaves
\* its estado as it was.
C25_TerminalEstados ==
    /\ llamada.metodo \in { "asignar_a", "iniciar_trabajo", "completar", "cancelar" }
    /\ antes.estado \in { "completada", "cancelada" }
    => tarea.estado = antes.estado


\* the polling so far: at most max_attempts calls, none after a succeeded or
\* failed status, a failed status returns (None, 0.0) at once, and so does
\* the last of max_attempts calls when none reported success
PollingBounded ==
    /\ polls <= max_attempts
    /\ sleeps <= polls
    /\ Len(statuses) <= polls
    /\ \A i \in 1..(Len(statuses) - 1) : statuses[i] \notin { "succeeded", "failed" }
    /\ statuses # << >> /\ statuses[Len(statuses)] = "succeeded" =>
           poll_pc \in { "analyze", "done" }
    /\ statuses # << >> /\ statuses[Len(statuses)] = "failed" =>
           poll_pc = "done" /\ poll_out = << None, 0 >>
    /\ polls = max_attempts /\ (\A i \in 1..Len(statuses) : statuses[i] # "succeeded") =>
           poll_pc = "done" /\ poll_out = << None, 0 >>

\* C24: read_plate of the cloud service polls the read operation at most 10
\* times and always returns: it polls no more after the first succeeded
\* status, returns (None, 0.0) at once on a failed status, and returns
\* (None, 0.0) when none of the 10 polls reported success
C24_PollingTerminates == [] PollingBounded /\ <> (poll_pc = "done")

\* ten polls that all found the operation unfinished, and the call returned
C24_Witness ==
    /\ poll_pc = "done"
    /\ polls = max_attempts
    /\ sleeps = max_attempts
    /\ Len(statuses) = max_attempts
    /\ poll_out = << None, 0 >>

=========================================================================
